---- MODULE Spec2Model ----
(***************************************************************************)
(* Model of generate_blog.py: the one-shot blog generator.                 *)
(*                                                                         *)
(* State: the filesystem (source documents, articles/, index.html), a      *)
(* clock that stamps modification times, and the observable results of     *)
(* the most recent run of main() (its argv, what it printed, which files   *)
(* it opened for writing, its local variables).                            *)
(*                                                                         *)
(* Texts are TLA+ strings; Len, \o and SubSeq act on them character by     *)
(* character, so the regular expressions and string methods of the source  *)
(* are modelled on the characters they scan.                               *)
(***************************************************************************)
EXTENDS Integers, Sequences, FiniteSets, TLC

VARIABLES fs, clock, run

vars == <<fs, clock, run>>

(***************************************************************************)
(* Bounds of the model.                                                    *)
(***************************************************************************)
MaxClock == 1

(***************************************************************************)
(* String helpers (Python str / re primitives).                            *)
(***************************************************************************)
Char(s, i) == SubSeq(s, i, i)

Min(S) == CHOOSE x \in S : \A y \in S : x <= y

Max(S) == 0 - Min({0 - x : x \in S})

\* Whether pat occurs in s at position i.
MatchesAt(s, i, pat) ==
    /\ i + Len(pat) - 1 <= Len(s)
    /\ SubSeq(s, i, i + Len(pat) - 1) = pat

\* Position of the first occurrence of pat in s at or after position from
\* (1-based); 0 when there is none.
Find(s, pat, from) ==
    LET hits == {i \in from..(Len(s) - Len(pat) + 1) :
                    /\ Char(s, i) = Char(pat, 1)
                    /\ SubSeq(s, i, i + Len(pat) - 1) = pat}
    IN  IF hits = {} THEN 0 ELSE Min(hits)

Contains(s, pat) == Find(s, pat, 1) > 0

\* The positions of character c in s.
PositionsOf(s, c) == {i \in 1..Len(s) : Char(s, i) = c}

\* The least element of S that is at least from; 0 when there is none.
FirstFrom(S, from) ==
    LET later == {i \in S : i >= from}
    IN  IF later = {} THEN 0 ELSE Min(later)

StartsWith(s, pat) == Len(s) >= Len(pat) /\ SubSeq(s, 1, Len(pat)) = pat

EndsWith(s, pat) ==
    Len(s) >= Len(pat) /\ SubSeq(s, Len(s) - Len(pat) + 1, Len(s)) = pat

CharsOf(s) == {Char(s, i) : i \in 1..Len(s)}

UpperAlpha == "ABCDEFGHIJKLMNOPQRSTUVWXYZ"
LowerAlpha == "abcdefghijklmnopqrstuvwxyz"
DigitChars == "0123456789"

UpperSet == CharsOf(UpperAlpha)
LowerSet == CharsOf(LowerAlpha)
DigitSet == CharsOf(DigitChars)

\* str.split() / str.strip() whitespace
Whitespace == {" ", "\n", "\t", "\r", "\f"}

\* The lower-case form of a character.  (ASCII letters; the texts of this
\* model hold no other upper-case letter.)
LowerChar(c) ==
    IF c \in UpperSet
    THEN Char(LowerAlpha, CHOOSE i \in 1..26 : Char(UpperAlpha, i) = c)
    ELSE c

\* str.lower(), and the case folding of re.IGNORECASE on ASCII patterns
RECURSIVE LowerStr(_)
LowerStr(s) ==
    IF Len(s) <= 1 THEN LowerChar(s)
    ELSE LET m == Len(s) \div 2
         IN  LowerStr(SubSeq(s, 1, m)) \o LowerStr(SubSeq(s, m + 1, Len(s)))

\* Whether pat (lower-case) matches s at position i, ignoring the case of s
\* (re.IGNORECASE).
MatchesCI(s, i, pat) ==
    /\ i + Len(pat) - 1 <= Len(s)
    /\ LowerStr(SubSeq(s, i, i + Len(pat) - 1)) = pat

\* str.replace(old, new) for a one-character old
RECURSIVE ReplaceChar(_, _, _)
ReplaceChar(s, old, new) ==
    IF Len(s) = 0 THEN ""
    ELSE IF Len(s) = 1 THEN (IF s = old THEN new ELSE s)
    ELSE LET m == Len(s) \div 2
         IN  ReplaceChar(SubSeq(s, 1, m), old, new)
                \o ReplaceChar(SubSeq(s, m + 1, Len(s)), old, new)

\* re.sub(r'[^...]', '', s): keep only the characters of allowed
RECURSIVE KeepOnly(_, _)
KeepOnly(s, allowed) ==
    IF Len(s) = 0 THEN ""
    ELSE IF Len(s) = 1 THEN (IF s \in allowed THEN s ELSE "")
    ELSE LET m == Len(s) \div 2
         IN  KeepOnly(SubSeq(s, 1, m), allowed)
                \o KeepOnly(SubSeq(s, m + 1, Len(s)), allowed)

\* str.strip()
Strip(s) ==
    LET keep == {i \in 1..Len(s) : Char(s, i) \notin Whitespace}
    IN  IF keep = {} THEN "" ELSE SubSeq(s, Min(keep), Max(keep))

\* str.lstrip('#')
LStripHash(s) ==
    LET keep == {i \in 1..Len(s) : Char(s, i) # "#"}
    IN  IF keep = {} THEN "" ELSE SubSeq(s, Min(keep), Len(s))

\* text.split('\n\n'): the separators are the leftmost non-overlapping pairs
\* of newlines, so in a run of newlines every second one starts a separator.
RECURSIVE IsSeparator(_, _)
IsSeparator(nls, i) ==
    /\ i \in nls
    /\ i + 1 \in nls
    /\ ~(i - 1 \in nls /\ IsSeparator(nls, i - 1))

RECURSIVE PartsFrom(_, _, _)
PartsFrom(s, seps, from) ==
    LET i == FirstFrom(seps, from)
    IN  IF i = 0 THEN <<SubSeq(s, from, Len(s))>>
        ELSE <<SubSeq(s, from, i - 1)>> \o PartsFrom(s, seps, i + 2)

SplitBlankLines(s) ==
    LET nls  == PositionsOf(s, "\n")
        seps == {i \in nls : IsSeparator(nls, i)}
    IN  PartsFrom(s, seps, 1)

\* The words of s[lo..hi], ws being the whitespace positions of s.  A
\* whitespace character belongs to no word, so the words are those on its left
\* followed by those on its right; the split is taken near the middle.
RECURSIVE WordsIn(_, _, _, _)
WordsIn(s, ws, lo, hi) ==
    LET inside == {i \in ws : lo <= i /\ i <= hi}
    IN  IF inside = {} THEN (IF lo > hi THEN <<>> ELSE <<SubSeq(s, lo, hi)>>)
        ELSE LET right == {i \in inside : 2 * i >= lo + hi}
                 w     == IF right # {} THEN Min(right) ELSE Max(inside)
             IN  WordsIn(s, ws, lo, w - 1) \o WordsIn(s, ws, w + 1, hi)

\* str.split(): the maximal runs of non-whitespace characters
SplitWs(s) ==
    WordsIn(s, {i \in 1..Len(s) : Char(s, i) \in Whitespace}, 1, Len(s))

\* sep.join(parts)
RECURSIVE Join(_, _)
Join(parts, sep) ==
    IF Len(parts) = 0 THEN ""
    ELSE IF Len(parts) = 1 THEN parts[1]
    ELSE LET m == Len(parts) \div 2
         IN  Join(SubSeq(parts, 1, m), sep) \o sep
                \o Join(SubSeq(parts, m + 1, Len(parts)), sep)

\* str.isupper(): at least one cased character and no lower-case one
IsUpper(s) ==
    LET chars == CharsOf(s)
    IN  chars \cap UpperSet # {} /\ chars \cap LowerSet = {}

\* s * n
RECURSIVE Rep(_, _)
Rep(s, n) ==
    IF n <= 0 THEN ""
    ELSE IF n = 1 THEN s
    ELSE Rep(s, n \div 2) \o Rep(s, n - (n \div 2))

\* os.path.basename
Basename(path) ==
    LET slashes == {i \in 1..Len(path) : Char(path, i) = "/"}
    IN  IF slashes = {} THEN path
        ELSE SubSeq(path, Max(slashes) + 1, Len(path))

(***************************************************************************)
(* extract_metadata_from_html                                              *)
(***************************************************************************)
ExcerptLimit == 150
ExcerptKeep == 147

\* re.search(r'<title>(.*?)</title>', content, re.IGNORECASE): group 1 of the
\* leftmost match, "Untitled" without one.  '.' matches no newline, so an
\* opening tag matches only when the first closing tag after it comes before
\* any newline.
TitleOf(content) ==
    LET lts      == PositionsOf(content, "<")
        opens    == {i \in lts : MatchesCI(content, i, "<title>")}
        closes   == {i \in lts : MatchesCI(content, i, "</title>")}
        EndOf(i) == FirstFrom(closes, i + 7)
        matches  == {i \in opens :
                        /\ EndOf(i) > 0
                        /\ ~Contains(SubSeq(content, i + 7, EndOf(i) - 1), "\n")}
    IN  IF matches = {} THEN "Untitled"
        ELSE LET i == Min(matches) IN SubSeq(content, i + 7, EndOf(i) - 1)

\* re.search(r'<article>(.*?)</article>', content, re.DOTALL | re.IGNORECASE):
\* [found, group 1]
ArticleMatch(content) ==
    LET lts    == PositionsOf(content, "<")
        opens  == {i \in lts : MatchesCI(content, i, "<article>")}
        closes == {i \in lts : MatchesCI(content, i, "</article>")}
        a      == FirstFrom(opens, 1)
        e      == IF a = 0 THEN 0 ELSE FirstFrom(closes, a + 9)
    IN  IF e = 0 THEN [found |-> FALSE, text |-> ""]
        ELSE [found |-> TRUE, text |-> SubSeq(content, a + 9, e - 1)]

\* re.search(r'<p[^>]*>(.*?)</p>', article_content, re.DOTALL): [found, group 1]
\* [^>]* stops at the first '>' after "<p", and if no "</p>" follows that one,
\* none follows the '>' of a later "<p" either.
ParagraphMatch(article_content) ==
    LET lts == PositionsOf(article_content, "<")
        p   == FirstFrom({i \in lts : MatchesAt(article_content, i, "<p")}, 1)
        g   == IF p = 0 THEN 0
               ELSE FirstFrom(PositionsOf(article_content, ">"), p + 2)
        c   == IF g = 0 THEN 0
               ELSE FirstFrom({i \in lts : MatchesAt(article_content, i, "</p>")},
                              g + 1)
    IN  IF c = 0 THEN [found |-> FALSE, text |-> ""]
        ELSE [found |-> TRUE, text |-> SubSeq(article_content, g + 1, c - 1)]

\* re.sub(r'<[^>]+>', '', s) on s[lo..hi], lts and gts being the positions of
\* '<' and '>' in s.  A match holds no '>' before its last character and the
\* scan resumes after every '>' (matched or not), so the text up to a '>' and
\* the text after it are substituted independently.  In a piece whose only
\* '>' is its last character the match, if any, starts at the first '<' and
\* needs one character or more between the two.
RECURSIVE StripRange(_, _, _, _, _)
StripRange(s, lts, gts, lo, hi) ==
    LET inner == {g \in gts : lo <= g /\ g < hi}
    IN  IF inner = {}
        THEN IF hi \in gts /\ lo <= hi
             THEN LET lt == FirstFrom(lts, lo)
                  IN  IF lt = 0 \/ lt >= hi - 1 THEN SubSeq(s, lo, hi)
                      ELSE SubSeq(s, lo, lt - 1)
             ELSE SubSeq(s, lo, hi)
        ELSE LET right == {g \in inner : 2 * g >= lo + hi}
                 g     == IF right # {} THEN Min(right) ELSE Max(inner)
             IN  StripRange(s, lts, gts, lo, g) \o StripRange(s, lts, gts, g + 1, hi)

StripTags(s) ==
    StripRange(s, PositionsOf(s, "<"), PositionsOf(s, ">"), 1, Len(s))

\* ' '.join(excerpt.split()) of the tag-free paragraph
CleanExcerpt(raw) == Join(SplitWs(StripTags(raw)), " ")

\* Faulty variant of Truncate: the cut is taken at the limit, before the ellipsis.
TruncateAtLimit(excerpt) ==
    IF Len(excerpt) > ExcerptLimit
    THEN SubSeq(excerpt, 1, ExcerptLimit) \o "..."
    ELSE excerpt

\* if len(excerpt) > 150: excerpt = excerpt[:147] + "..."
Truncate(excerpt) ==
    IF Len(excerpt) > ExcerptLimit
    THEN SubSeq(excerpt, 1, ExcerptKeep) \o "..."
    ELSE excerpt

ExcerptOf(content) ==
    LET am == ArticleMatch(content)
    IN  IF ~am.found THEN "Read more..."
        ELSE LET pm == ParagraphMatch(am.text)
             IN  IF ~pm.found THEN "Read more..."
                 ELSE Truncate(CleanExcerpt(pm.text))

\* mod_time.strftime("%B %Y"): the month of the clock value
DateStr(mtime) == "Month " \o Char(DigitChars, mtime + 1)

extract_metadata_from_html(filepath, f) ==
    [title    |-> TitleOf(f[filepath].content),
     excerpt  |-> ExcerptOf(f[filepath].content),
     date     |-> DateStr(f[filepath].mtime),
     filename |-> Basename(filepath)]

(***************************************************************************)
(* generate_index_html.  The CSS rules of the template (which hold no '<') *)
(* and the indentation are left out; the markup is kept.                   *)
(***************************************************************************)
BLOG_TITLE == "Essays"
BLOG_TAGLINE == "Thoughts on technology, design, and what matters."
PORTFOLIO_URL == "https://simplr-k18.github.io/rishanth_reddy/"

IndexEntry(article) ==
    "\n<article onclick=\"window.location.href='articles/" \o article.filename
        \o "'\">\n<div class=\"article-date\">" \o article.date
        \o "</div>\n<h2 class=\"article-title\">\n" \o article.title
        \o "\n<span class=\"arrow\">-></span>\n</h2>\n<p class=\"article-excerpt\">\n"
        \o article.excerpt \o "\n</p>\n</article>\n"

RECURSIVE ArticlesHtml(_)
ArticlesHtml(articles) ==
    IF Len(articles) = 0 THEN ""
    ELSE IndexEntry(Head(articles)) \o ArticlesHtml(Tail(articles))

generate_index_html(articles, now) ==
    "<!DOCTYPE html>\n<html lang=\"en\">\n<head>\n<meta charset=\"UTF-8\">\n<title>"
        \o BLOG_TITLE \o "</title>\n<style>\n</style>\n</head>\n<body>\n"
        \o "<div class=\"container\">\n<header>\n<a href=\"" \o PORTFOLIO_URL
        \o "\" class=\"back-to-portfolio\">Back to Portfolio</a>\n<h1>"
        \o BLOG_TITLE \o "</h1>\n<p class=\"intro\">" \o BLOG_TAGLINE
        \o "</p>\n</header>\n<div class=\"essays\">\n" \o ArticlesHtml(articles)
        \o "\n</div>\n<footer>\n<p>(c) Year " \o Char(DigitChars, now + 1)
        \o "</p>\n</footer>\n</div>\n</body>\n</html>"

(***************************************************************************)
(* convert_plain_text_to_html                                              *)
(***************************************************************************)
HeadingMaxLen == 80

\* [p.strip() for p in text_content.split('\n\n') if p.strip()]
Paragraphs(text_content) ==
    LET parts == SplitBlankLines(text_content)
    IN  SelectSeq([i \in 1..Len(parts) |-> Strip(parts[i])], LAMBDA p : p # "")

\* Faulty variant of ParaHtml: only the '#' marker makes a heading.
ParaHtmlHashOnly(para) ==
    IF StartsWith(para, "#")
    THEN "<h2>" \o Strip(LStripHash(para)) \o "</h2>\n\n"
    ELSE "<p>" \o para \o "</p>\n\n"

\* the body of the for loop: the markup appended for one paragraph
ParaHtml(para) ==
    IF StartsWith(para, "#")
    THEN "<h2>" \o Strip(LStripHash(para)) \o "</h2>\n\n"
    ELSE IF StartsWith(para, "##")
    THEN "<h2>" \o Strip(LStripHash(para)) \o "</h2>\n\n"
    ELSE IF IsUpper(para) /\ Len(para) < HeadingMaxLen
    THEN "<h2>" \o para \o "</h2>\n\n"
    ELSE "<p>" \o para \o "</p>\n\n"

RECURSIVE HtmlContent(_)
HtmlContent(paragraphs) ==
    IF Len(paragraphs) = 0 THEN ""
    ELSE ParaHtml(Head(paragraphs)) \o HtmlContent(Tail(paragraphs))

\* datetime.now().strftime("%B %d, %Y")
NowStr(now) == "Month 01, Year " \o Char(DigitChars, now + 1)

convert_plain_text_to_html(text_content, title, now) ==
    "<!DOCTYPE html>\n<html lang=\"en\">\n<head>\n<meta charset=\"UTF-8\">\n<title>"
        \o title \o "</title>\n<style>\n</style>\n</head>\n<body>\n"
        \o "<div class=\"container\">\n<a href=\"../index.html\" class=\"back\">Essays</a>\n"
        \o "<h1>" \o title \o "</h1>\n<p class=\"date\">" \o NowStr(now) \o "</p>\n"
        \o "<article>\n" \o HtmlContent(Paragraphs(text_content))
        \o "\n</article>\n</div>\n</body>\n</html>"

(***************************************************************************)
(* The filesystem.  fs maps each path of a regular file to its content and *)
(* modification time; Dirs are the directories (main() creates articles/   *)
(* before anything else).                                                  *)
(***************************************************************************)
Dirs == {"articles"}

ArticlesDir == "articles/"

IndexPath == "index.html"

\* open(path, 'w') ... f.write(content)
WriteFile(f, path, content, now) ==
    [p \in DOMAIN f \cup {path} |->
        IF p = path THEN [content |-> content, mtime |-> now] ELSE f[p]]

\* the files directly inside articles/
InArticles(f) ==
    {p \in DOMAIN f :
        /\ StartsWith(p, ArticlesDir)
        /\ ~Contains(SubSeq(p, Len(ArticlesDir) + 1, Len(p)), "/")}

\* articles_dir.glob("*.html"), as a set
HtmlFiles(f) == {p \in InArticles(f) : EndsWith(Basename(p), ".html")}

\* the orders in which glob may yield the files (directory order)
GlobOrders(f) ==
    LET S == HtmlFiles(f)
        n == Cardinality(S)
    IN  {o \in [1..n -> S] : \A i, j \in 1..n : i # j => o[i] # o[j]}

\* Faulty variant of SortedByMtime: reverse=True forgotten (stable, oldest first).
RECURSIVE SortedOldestFirst(_, _)
SortedOldestFirst(files, f) ==
    IF Len(files) = 0 THEN <<>>
    ELSE LET rest == SortedOldestFirst(SubSeq(files, 1, Len(files) - 1), f)
             x    == files[Len(files)]
             before == {k \in 1..Len(rest) : f[rest[k]].mtime <= f[x].mtime}
             cut  == IF before = {} THEN 0 ELSE Max(before)
         IN  SubSeq(rest, 1, cut) \o <<x>> \o SubSeq(rest, cut + 1, Len(rest))

\* sorted(article_files, key=os.path.getmtime, reverse=True): stable, so files
\* of equal modification time keep the order glob gave them
RECURSIVE SortedByMtime(_, _)
SortedByMtime(files, f) ==
    IF Len(files) = 0 THEN <<>>
    ELSE LET rest == SortedByMtime(SubSeq(files, 1, Len(files) - 1), f)
             x    == files[Len(files)]
             before == {k \in 1..Len(rest) : f[rest[k]].mtime >= f[x].mtime}
             cut  == IF before = {} THEN 0 ELSE Max(before)
         IN  SubSeq(rest, 1, cut) \o <<x>> \o SubSeq(rest, cut + 1, Len(rest))

(***************************************************************************)
(* main()                                                                  *)
(***************************************************************************)
\* sys.argv[k]
Arg(argv, k) == argv[k + 1]

\* Faulty variant of Slugify: the re.sub that drops the other characters is missing.
SlugifyNoFilter(article_title) ==
    ReplaceChar(LowerStr(article_title), " ", "-")

\* filename = article_title.lower().replace(' ', '-')
\* filename = re.sub(r'[^a-z0-9-]', '', filename)
Slugify(article_title) ==
    KeepOnly(ReplaceChar(LowerStr(article_title), " ", "-"),
             LowerSet \cup DigitSet \cup {"-"})

\* if len(sys.argv) >= 4 and sys.argv[1] == "--convert"
ConvertRequested(argv) == Len(argv) >= 4 /\ Arg(argv, 1) = "--convert"

\* article_title = sys.argv[3]
ArticleTitle(argv) == Arg(argv, 3)

\* Faulty variant of AfterNotFound: the return is missing and main() goes on to scan.
AfterNotFoundGoesOn == "scan"

\* what main() does once the except FileNotFoundError clause has printed
AfterNotFound == "returned"

\* Faulty variant of NoArticles: the empty-directory test never fires.
NoArticlesNever(article_files) == FALSE

\* if not article_files: print(...); return
NoArticles(article_files) == Len(article_files) = 0

NoRun ==
    [status |-> "none", argv |-> <<>>, stdout |-> <<>>, written |-> <<>>,
     converted |-> FALSE, text_file |-> "", article_title |-> "",
     text_content |-> "", output_path |-> "",
     scanned |-> FALSE, article_files |-> <<>>, articles |-> <<>>]

\* Lines 449-475: the conversion block.  phase "scan" means main() goes on to
\* the scan; "returned" and "raised" end the run.
ConvertPhase(argv, f, now) ==
    LET r0 == [NoRun EXCEPT !.status = "running", !.argv = argv]
    IN  IF ~ConvertRequested(argv) THEN [phase |-> "scan", fs |-> f, run |-> r0]
        ELSE
        LET text_file     == Arg(argv, 2)
            article_title == ArticleTitle(argv)
            r1 == [r0 EXCEPT !.text_file = text_file,
                             !.article_title = article_title]
        IN  IF text_file \in Dirs
            THEN \* IsADirectoryError is not caught
                 [phase |-> "raised", fs |-> f,
                  run |-> [r1 EXCEPT !.status = "raised"]]
            ELSE IF text_file \notin DOMAIN f
            THEN [phase |-> AfterNotFound, fs |-> f,
                  run |-> [r1 EXCEPT
                      !.status = "returned",
                      !.stdout = <<"Error: File '" \o text_file \o "' not found">>]]
            ELSE
            LET text_content == f[text_file].content
                filename     == Slugify(article_title)
                output_path  == "articles/" \o filename \o ".html"
                article_html ==
                    convert_plain_text_to_html(text_content, article_title, now)
            IN  [phase |-> "scan",
                 fs |-> WriteFile(f, output_path, article_html, now),
                 run |-> [r1 EXCEPT
                     !.converted = TRUE,
                     !.text_content = text_content,
                     !.output_path = output_path,
                     !.written = <<output_path>>,
                     !.stdout = <<"Converted '" \o text_file \o "' to '"
                                     \o output_path \o "'",
                                  "Title: " \o article_title>>]]

\* Lines 477-498: the scan and the index, given the order glob yields.  meta
\* pairs every globbed file p with extract_metadata_from_html(p, c.fs): the
\* extraction reads nothing but the file, so it is computed once per file.
ScanPhase(c, globbed, meta, now) ==
    LET r2 == [c.run EXCEPT !.scanned = TRUE, !.article_files = globbed]
    IN  IF NoArticles(globbed)
        THEN [fs |-> c.fs,
              run |-> [r2 EXCEPT
                  !.status = "returned",
                  !.stdout = @ \o <<"No articles found in articles/ directory">>]]
        ELSE
        LET sorted   == SortedByMtime(globbed, c.fs)
            articles == [i \in 1..Len(sorted) |->
                            (CHOOSE m \in meta : m[1] = sorted[i])[2]]
            found    == [i \in 1..Len(sorted) |-> "Found: " \o articles[i].title]
        IN  [fs |-> WriteFile(c.fs, IndexPath,
                              generate_index_html(articles, now), now),
             run |-> [r2 EXCEPT
                 !.status = "returned",
                 !.articles = articles,
                 !.written = @ \o <<IndexPath>>,
                 !.stdout = @ \o found
                     \o <<"Generated index.html with "
                            \o Char(DigitChars, Len(articles) + 1) \o " article(s)",
                          "Ready to commit and push!">>]]

(***************************************************************************)
(* Inputs: the source documents on disk, the hand-written articles the     *)
(* user may drop into articles/, and the command lines.                    *)
(***************************************************************************)
LongWords == Rep("lorem ipsum ", 14)

SourceFiles ==
    [p \in {"intro.txt", "notes.txt"} |->
        [mtime |-> 0,
         content |->
            IF p = "intro.txt"
            THEN "# Intro\n\nHello world.\n\n# Conclusion\n\nBye."
            ELSE "OVERVIEW\n\n" \o LongWords \o "\n\n" \o Rep("A", 79)
                    \o "\n\n" \o Rep("B", 80)
                    \o "\n\nSome **bold** and **strong** and *italic* text.\n\n"
                    \o "## More Details\n\nLAST LINE\nOF CAPS"]]

\* Files the user may already have in articles/ when main() is first run.
PreExisting ==
    [p \in {"articles/old.html", "articles/edge.html", "articles/draft.txt"} |->
        [mtime |-> 0,
         content |->
            IF p = "articles/old.html"
            THEN "<title>Two\nLines</title>\n<article><h2>Top</h2>\n"
                    \o "<p class=\"lead\">" \o Rep("lorem <b>ipsum</b>\n dolor ", 9)
                    \o "</p></article>"
            ELSE IF p = "articles/edge.html"
            THEN "<html><head><TITLE>Edge</TITLE></head><body><ARTICLE><p>"
                    \o Rep("a", 150) \o "</p></ARTICLE></body></html>"
            ELSE "<title>Draft</title> not an html file"]]

\* The layouts of articles/ a first run may find.
InitialLayouts ==
    {{}, {"articles/draft.txt"}, {"articles/old.html"},
     {"articles/old.html", "articles/edge.html"}}

Prog == "generate_blog.py"

ArgvSet ==
    {<<Prog>>,
     <<Prog, "--convert", "intro.txt">>,
     <<Prog, "--convert", "missing.txt", "Lost">>,
     <<Prog, "--convert", "articles", "Dir">>,
     <<Prog, "--convert", "notes.txt", "../My Post.v2", "Second", "Part">>,
     <<Prog, "--convert", "intro.txt", "é?!">>}

(***************************************************************************)
(* The state machine.                                                      *)
(***************************************************************************)
Init ==
    /\ \E have \in InitialLayouts :
          /\ fs = [p \in DOMAIN SourceFiles \cup have |->
                      IF p \in have THEN PreExisting[p] ELSE SourceFiles[p]]
    /\ clock = 0
    /\ run = NoRun

\* every globbed file paired with its metadata
MetadataOf(f) == {<<p, extract_metadata_from_html(p, f)>> : p \in HtmlFiles(f)}

\* One run of main() with command line argv.  (Each intermediate result is
\* bound once, by a quantifier over a one-element set.)
Main(argv) ==
    /\ \E c \in {ConvertPhase(argv, fs, clock)} :
          IF c.phase # "scan"
          THEN fs' = c.fs /\ run' = c.run
          ELSE \E meta \in {MetadataOf(c.fs)} :
                  \E globbed \in GlobOrders(c.fs) :
                     \E s \in {ScanPhase(c, globbed, meta, clock)} :
                        fs' = s.fs /\ run' = s.run
    /\ UNCHANGED clock

\* Time passes between runs.
Tick ==
    /\ clock < MaxClock
    /\ clock' = clock + 1
    /\ UNCHANGED <<fs, run>>

Next ==
    \/ \E argv \in ArgvSet : Main(argv)
    \/ Tick

Spec == Init /\ [][Next]_vars
(***************************************************************************)
(* Properties.  run describes the most recent run of main(); fs is the     *)
(* filesystem that run left behind (only main() writes files).             *)
(***************************************************************************)
RangeOf(seq) == {seq[k] : k \in 1..Len(seq)}

CountOcc(s, pat) ==
    Cardinality({i \in PositionsOf(s, Char(pat, 1)) : MatchesAt(s, i, pat)})

RunEnded == run.status \in {"returned", "raised"}

\* no command-line argument is --convert
NoConvertArg(argv) == \A k \in 2..Len(argv) : argv[k] # "--convert"

\* the scanned article behind entry i of run.articles
ScannedPath(i) == ArticlesDir \o run.articles[i].filename

\* the article page the conversion of this run wrote
ConvertedPage == fs[run.output_path].content

\* the text a paragraph shows as a heading
HeadingText(para) ==
    IF StartsWith(para, "#") THEN Strip(LStripHash(para)) ELSE para

\* the paragraphs the converter takes for headings, and the others
IsHeadingPara(para) ==
    StartsWith(para, "#") \/ (IsUpper(para) /\ Len(para) < 80)

\* C1: a run without a --convert argument that finds no *.html file in
\* articles/ reports "No articles found", does not write index.html and ends
\* normally.
C1_EmptyScanWritesNoIndex ==
    (RunEnded /\ NoConvertArg(run.argv) /\ HtmlFiles(fs) = {}) =>
        /\ "No articles found in articles/ directory" \in RangeOf(run.stdout)
        /\ IndexPath \notin RangeOf(run.written)
        /\ run.status = "returned"

\* C1 witness: such a run has happened, with a non-HTML file in articles/.
C1_Witness ==
    /\ run.status = "returned" /\ run.scanned
    /\ NoConvertArg(run.argv)
    /\ HtmlFiles(fs) = {}
    /\ InArticles(fs) # {}

\* C2: --convert of a source file that does not exist reports the error and
\* writes nothing, under articles/ or to index.html, whatever articles exist.
C2_MissingSourceWritesNothing ==
    (/\ RunEnded
     /\ ConvertRequested(run.argv)
     /\ Arg(run.argv, 2) \notin DOMAIN fs \cup Dirs) =>
        /\ "Error: File '" \o Arg(run.argv, 2) \o "' not found"
              \in RangeOf(run.stdout)
        /\ run.written = <<>>

\* C2 witness: the source was missing while articles/ held HTML files.
C2_Witness ==
    /\ RunEnded
    /\ ConvertRequested(run.argv)
    /\ Arg(run.argv, 2) \notin DOMAIN fs \cup Dirs
    /\ HtmlFiles(fs) # {}

\* C3 (as claimed): the title of a conversion is every argument after the
\* source file, joined with single spaces.
C3_TitleJoinsAllWords ==
    run.converted =>
        run.article_title = Join(SubSeq(run.argv, 4, Len(run.argv)), " ")

\* the first <title> ... </title> element of an HTML text, tags in any case
FirstTitleElement(content) ==
    LET lts    == PositionsOf(content, "<")
        o      == FirstFrom({i \in lts : MatchesCI(content, i, "<title>")}, 1)
        e      == IF o = 0 THEN 0
                  ELSE FirstFrom({i \in lts : MatchesCI(content, i, "</title>")},
                                 o + 7)
    IN  IF e = 0 THEN [found |-> FALSE, text |-> ""]
        ELSE [found |-> TRUE, text |-> SubSeq(content, o + 7, e - 1)]

\* C4 (as claimed): for every scanned file with a well-formed title element,
\* the extracted title is the text of that element, also over several lines.
C4_TitleIsElementText ==
    \A i \in 1..Len(run.articles) :
        LET el == FirstTitleElement(fs[ScannedPath(i)].content)
        IN  el.found => run.articles[i].title = el.text

\* the first paragraph of a scanned file, tags removed, whitespace normalised
CleanedFirstParagraph(content) ==
    LET am == ArticleMatch(content)
        pm == ParagraphMatch(am.text)
    IN  IF am.found /\ pm.found
        THEN [found |-> TRUE, text |-> CleanExcerpt(pm.text)]
        ELSE [found |-> FALSE, text |-> ""]

\* C5: a cleaned first paragraph longer than 150 characters gives an excerpt
\* of exactly 150: its first 147 characters and "..."; no excerpt is longer
\* than 150.
C5_ExcerptLength ==
    \A i \in 1..Len(run.articles) :
        LET para    == CleanedFirstParagraph(fs[ScannedPath(i)].content)
            excerpt == run.articles[i].excerpt
        IN  /\ Len(excerpt) <= 150
            /\ (para.found /\ Len(para.text) > 150) =>
                  /\ Len(excerpt) = 150
                  /\ excerpt = SubSeq(para.text, 1, 147) \o "..."

\* C5 witness: a scanned article had a first paragraph of more than 150
\* characters once cleaned, and markup and line breaks inside it.
C5_Witness ==
    \E i \in 1..Len(run.articles) :
        LET am == ArticleMatch(fs[ScannedPath(i)].content)
            pm == ParagraphMatch(am.text)
        IN  /\ am.found /\ pm.found
            /\ Len(CleanExcerpt(pm.text)) > 150
            /\ Contains(pm.text, "<b>") /\ Contains(pm.text, "\n")
            /\ Len(run.articles[i].excerpt) = 150

\* C6: every upper-case paragraph shorter than 80 characters of a converted
\* text is in the page as a heading element and not as a <p> paragraph.
C6_CapsParagraphIsHeading ==
    run.converted =>
        \A para \in RangeOf(Paragraphs(run.text_content)) :
            (IsUpper(para) /\ Len(para) < 80) =>
                /\ Contains(ConvertedPage, "<h2>" \o HeadingText(para) \o "</h2>")
                /\ ~Contains(ConvertedPage, "<p>" \o para \o "</p>")

\* C6 witness: the converted text had an upper-case paragraph of 79
\* characters (a heading) after a body paragraph, and one of 80 (a paragraph).
C6_Witness ==
    /\ run.converted
    /\ \E para \in RangeOf(Paragraphs(run.text_content)) :
          /\ IsUpper(para) /\ Len(para) = 79
          /\ Contains(ConvertedPage, "</p>\n\n<h2>" \o para \o "</h2>")
    /\ \E para \in RangeOf(Paragraphs(run.text_content)) :
          /\ IsUpper(para) /\ Len(para) = 80
          /\ Contains(ConvertedPage, "<p>" \o para \o "</p>")

\* the anchor identifier of a heading
AnchorId(heading_text) ==
    KeepOnly(ReplaceChar(LowerStr(heading_text), " ", "-"),
             LowerSet \cup DigitSet \cup {"-"})

\* C7 (as claimed): every detected heading carries its anchor identifier, and
\* the page has a table-of-contents entry linking to that same identifier.
C7_HeadingsAnchoredAndListed ==
    run.converted =>
        \A para \in RangeOf(Paragraphs(run.text_content)) :
            IsHeadingPara(para) =>
                LET id == AnchorId(HeadingText(para))
                IN  /\ Contains(ConvertedPage, " id=\"" \o id \o "\"")
                    /\ Contains(ConvertedPage, "href=\"#" \o id \o "\"")

\* a "**bold**" span: two markers with text between them
HasBoldSpan(para) ==
    \E i, j \in {k \in PositionsOf(para, "*") : MatchesAt(para, k, "**")} :
        j >= i + 3

\* C8 (as claimed): a body paragraph with a "**bold**" span is emitted with
\* the span wrapped in emphasis markup, so not with its markers left in.
C8_BoldMarkersReplaced ==
    run.converted =>
        \A para \in RangeOf(Paragraphs(run.text_content)) :
            (~IsHeadingPara(para) /\ HasBoldSpan(para)) =>
                ~Contains(ConvertedPage, "<p>" \o para \o "</p>")

\* where the index entry of an article file starts in index.html
EntryPos(idx, path) ==
    Find(idx, "<article onclick=\"window.location.href='articles/"
                 \o Basename(path) \o "'\">", 1)

\* C9: an index written by a run has exactly one entry per *.html file of
\* articles/, in descending order of modification time, so the article just
\* converted comes before every older one.
C9_IndexListsAllNewestFirst ==
    IndexPath \in RangeOf(run.written) =>
        LET idx   == fs[IndexPath].content
            files == HtmlFiles(fs)
        IN  /\ CountOcc(idx, "<article onclick=") = Cardinality(files)
            /\ \A p \in files :
                  /\ EntryPos(idx, p) > 0
                  /\ CountOcc(idx, "href='articles/" \o Basename(p) \o "'") = 1
            /\ \A p, q \in files :
                  fs[p].mtime > fs[q].mtime => EntryPos(idx, p) < EntryPos(idx, q)
            /\ run.converted =>
                  \A q \in files :
                      fs[q].mtime < fs[run.output_path].mtime =>
                          EntryPos(idx, run.output_path) < EntryPos(idx, q)

\* C9 witness: the index was written in a run that converted an article into
\* a directory holding an older one and one of the same modification time.
C9_Witness ==
    /\ IndexPath \in RangeOf(run.written)
    /\ run.converted
    /\ \E q \in HtmlFiles(fs) : fs[q].mtime < fs[run.output_path].mtime
    /\ \E q \in HtmlFiles(fs) \ {run.output_path} :
          fs[q].mtime = fs[run.output_path].mtime

\* the file name the claim gives a title, character by character
RECURSIVE ExpectedName(_)
ExpectedName(title) ==
    IF title = "" THEN ""
    ELSE LET c == LowerChar(Char(title, 1))
             d == IF c = " " THEN "-" ELSE c
         IN  (IF d \in LowerSet \cup DigitSet \cup {"-"} THEN d ELSE "")
                \o ExpectedName(SubSeq(title, 2, Len(title)))

\* C10: a conversion writes exactly one file under articles/; it lies
\* directly inside articles/ and is named after the title, lower-cased, spaces
\* as hyphens, every other character outside [a-z0-9-] dropped, plus ".html".
C10_OneArticleFileNamedByTitle ==
    run.converted =>
        LET under == {k \in 1..Len(run.written) :
                         StartsWith(run.written[k], ArticlesDir)}
        IN  /\ under = {1}
            /\ run.written[1] = run.output_path
            /\ run.output_path
                  = ArticlesDir \o ExpectedName(run.article_title) \o ".html"
            /\ ~Contains(SubSeq(run.output_path, Len(ArticlesDir) + 1,
                                Len(run.output_path)), "/")
            /\ run.output_path \in InArticles(fs)

\* C10 witness: a title with '/', '.' and ".." was converted, next to the
\* article of a title that reduces to the empty string.
C10_Witness ==
    /\ run.converted
    /\ Contains(run.article_title, "../") /\ Contains(run.article_title, ".")
    /\ run.output_path = "articles/my-postv2.html"
    /\ "articles/.html" \in HtmlFiles(fs)
====
